---- MODULE Spec2Model ----
(***************************************************************************)
(* TinyLink backend: the short-code registry and the redirect resolver     *)
(* over one shared store.                                                  *)
(*                                                                         *)
(* The redirect handler (redirectController.js, whose text is the tail of  *)
(* src/README.md, lines 498-542) and the error middleware of server.js are *)
(* translated from the source.  linkController.js (create, get, delete),   *)
(* middleware/analytics.js (trackClick) and utils/generateShortCode.js are *)
(* not part of the source tree at hand; they are modelled from spec.md     *)
(* sections 4.1, 4.2, 5 and 9.  The read-only handlers (get, list, health) *)
(* change nothing in the store and are left out.                           *)
(*                                                                         *)
(* A handler is split at its awaits: one action per store call together    *)
(* with the synchronous code that follows it up to the next await.         *)
(***************************************************************************)
EXTENDS Integers, FiniteSets, TLC

\* ------------------------------------------------------------------ bounds
MaxRequests == 3     \* requests of all kinds admitted in one run

\* The retry budget of code generation (spec.md 4.1: "a small fixed retry
\* budget").
MaxAttempts == 2

\* Request numbers, one series per endpoint.
CIds == 1 .. MaxRequests     \* POST /api/links
RIds == 1 .. MaxRequests     \* GET /:shortCode
DIds == 1 .. MaxRequests     \* DELETE /api/links/:code

\* The short-code namespace, and the expiresAt a client may send (0 stands for
\* expiresAt omitted, null in the store; instants are 1, 2, ...).  Create
\* request i submits the i-th URL, written i.
Codes    == {"aaaaaa", "bbbbbb"}
Expiries == {0, 1}

\* The clock runs from instant 1 to the instant after the last expiry a client
\* can send: every later instant compares with every expiresAt as that one does.
Horizon == (CHOOSE e \in Expiries : \A f \in Expiries : f <= e) + 1

VARIABLES
  rows,     \* the Link table: rows[i] is the row inserted by create request i
  events,   \* the Analytics table: events[i] = number of ClickEvents of link i
  now,      \* the wall clock (new Date())
  creq,     \* create requests
  rreq,     \* redirect requests
  dreq      \* delete requests

vars == <<rows, events, now, creq, rreq, dreq>>

\* ------------------------------------------------------------- the store
\* Link (README "Database Schema", spec.md 3).  id = 0 stands for no row.
NoRow == [id |-> 0, shortCode |-> "", originalUrl |-> 0, isActive |-> FALSE,
          expiresAt |-> 0, clicks |-> 0]

NewRow(i, code, url, exp) ==
  [id |-> i, shortCode |-> code, originalUrl |-> url, isActive |-> TRUE,
   expiresAt |-> exp, clicks |-> 0]

\* prisma.link.findUnique({ where: { shortCode } }): the row, or null (NoRow).
findUnique(code) ==
  IF \E i \in CIds : rows[i].id # 0 /\ rows[i].shortCode = code
  THEN rows[CHOOSE i \in CIds : rows[i].id # 0 /\ rows[i].shortCode = code]
  ELSE NoRow

\* The fields of a looked-up row that the redirect handler reads.
Seen(link) == [id |-> link.id, isActive |-> link.isActive,
               expiresAt |-> link.expiresAt, originalUrl |-> link.originalUrl]

\* ------------------------------------------------------------- responses
NoResp == [status |-> 0, location |-> 0, body |-> ""]
NotFound == [status |-> 404, location |-> 0, body |-> "Not Found"]
Redirect302(url) == [status |-> 302, location |-> url, body |-> ""]
\* server.js error middleware: res.status(err.status || 500).json({...})
ErrorResponse == [status |-> 500, location |-> 0, body |-> "Internal Server Error"]

\* A request record holds the handler's locals while it runs and, once it has
\* returned, what the client saw: pc, code, status/resp.  For a redirect,
\* linkId is the id of the looked-up row (0: null), write the state of the
\* promise returned by trackClick, err whether next(error) was called.
IdleCreate == [pc |-> "idle", auto |-> FALSE, code |-> "", exp |-> 0,
               attempts |-> 0, status |-> 0]
IdleResolve == [pc |-> "idle", code |-> "", link |-> Seen(NoRow), linkId |-> 0,
                resp |-> NoResp, write |-> "none", err |-> FALSE]
IdleDelete == [pc |-> "idle", code |-> "", status |-> 0]

Init ==
  /\ rows = [i \in CIds |-> NoRow]
  /\ events = [i \in CIds |-> 0]
  /\ now = 1
  /\ creq = [i \in CIds |-> IdleCreate]
  /\ rreq = [r \in RIds |-> IdleResolve]
  /\ dreq = [d \in DIds |-> IdleDelete]

\* The clock advances.
Tick ==
  /\ now < Horizon
  /\ now' = now + 1
  /\ UNCHANGED <<rows, events, creq, rreq, dreq>>

\* Requests of one endpoint are numbered in the order they arrive.
Admitted ==
  Cardinality({i \in CIds : creq[i].pc # "idle"})
  + Cardinality({r \in RIds : rreq[r].pc # "idle"})
  + Cardinality({d \in DIds : dreq[d].pc # "idle"})

\* The codes a new request may name: the two codes are interchangeable, so the
\* first request of a run names "aaaaaa".
Named ==
  IF Admitted = 0 THEN {"aaaaaa"} ELSE Codes

Arrives(q, i) ==
  /\ Admitted < MaxRequests
  /\ q[i].pc = "idle"
  /\ IF i = 1 THEN TRUE ELSE q[i - 1].pc # "idle"

\* ------------------------------------------------- Link Registry: create
\* A variant of Collided without a retry budget: a generated code that
\* collides is always replaced by a new candidate.
CollidedUnbounded(i, q) ==
  \/ /\ ~q.auto
     /\ creq' = [creq EXCEPT ![i] = [q EXCEPT !.pc = "done", !.exp = 0, !.status = 409]]
  \/ /\ q.auto
     /\ \E c \in Codes :
          creq' = [creq EXCEPT ![i] = [q EXCEPT !.pc = "check", !.code = c,
                                                !.attempts = q.attempts + 1]]

\* POST /api/links.  The candidate of create request i (q: the request as it
\* stands) collided with a stored code, found by the existence check or
\* refused by the unique constraint: a custom code answers 409 Conflict; a
\* generated code is replaced by a new random candidate until the retry budget
\* is spent, then 500 Internal.
Collided(i, q) ==
  \/ /\ ~q.auto
     /\ creq' = [creq EXCEPT ![i] = [q EXCEPT !.pc = "done", !.exp = 0, !.status = 409]]
  \/ /\ q.auto
     /\ q.attempts >= MaxAttempts
     /\ creq' = [creq EXCEPT ![i] = [q EXCEPT !.pc = "done", !.exp = 0, !.status = 500]]
  \/ /\ q.auto
     /\ q.attempts < MaxAttempts
     /\ \E c \in Codes :
          creq' = [creq EXCEPT ![i] = [q EXCEPT !.pc = "check", !.code = c,
                                                !.attempts = q.attempts + 1]]

\* The application-level existence check (the fast path) on request q.
Checked(i, q) ==
  IF findUnique(q.code).id # 0
  THEN Collided(i, q)
  ELSE creq' = [creq EXCEPT ![i] = [q EXCEPT !.pc = "insert"]]

\* The request arrives: its body is read, with shortCode omitted the first
\* candidate is generated (uniform random over the namespace), and the
\* existence of the code is checked.
CreateBegin(i) ==
  /\ Arrives(creq, i)
  /\ \E auto \in BOOLEAN, c \in Named, e \in Expiries :
       Checked(i, [pc |-> "check", auto |-> auto, code |-> c, exp |-> e,
                   attempts |-> IF auto THEN 1 ELSE 0, status |-> 0])
  /\ UNCHANGED <<rows, events, now, rreq, dreq>>

\* The existence check of a regenerated candidate.
CreateCheck(i) ==
  /\ creq[i].pc = "check"
  /\ Checked(i, creq[i])
  /\ UNCHANGED <<rows, events, now, rreq, dreq>>

\* A variant of CreateInsert that trusts the existence check and inserts
\* without a unique constraint in the store.
CreateInsertUnconstrained(i) ==
  /\ creq[i].pc = "insert"
  /\ rows' = [rows EXCEPT ![i] = NewRow(i, creq[i].code, i, creq[i].exp)]
  /\ creq' = [creq EXCEPT ![i].pc = "done", ![i].exp = 0, ![i].status = 201]
  /\ UNCHANGED <<events, now, rreq, dreq>>

\* The insert, under the store's unique constraint on shortCode: clicks = 0,
\* isActive = true; a violation of the constraint is a collision.
CreateInsert(i) ==
  /\ creq[i].pc = "insert"
  /\ IF findUnique(creq[i].code).id # 0
     THEN Collided(i, creq[i]) /\ UNCHANGED rows
     ELSE /\ rows' = [rows EXCEPT ![i] = NewRow(i, creq[i].code, i, creq[i].exp)]
          /\ creq' = [creq EXCEPT ![i].pc = "done", ![i].exp = 0, ![i].status = 201]
  /\ UNCHANGED <<events, now, rreq, dreq>>

\* --------------------------------------------------- Link Registry: delete
\* A variant of Delete that removes the row and, by cascade, its ClickEvents,
\* which frees the code.
HardDelete(d, code) ==
  /\ Arrives(dreq, d)
  /\ LET link == findUnique(code) IN
     IF link.id = 0
     THEN /\ dreq' = [dreq EXCEPT ![d] = [pc |-> "done", code |-> code, status |-> 404]]
          /\ UNCHANGED <<rows, events>>
     ELSE /\ rows' = [rows EXCEPT ![link.id] = NoRow]
          /\ events' = [events EXCEPT ![link.id] = 0]
          /\ dreq' = [dreq EXCEPT ![d] = [pc |-> "done", code |-> code, status |-> 200]]
  /\ UNCHANGED <<now, creq, rreq>>

\* DELETE /api/links/:code: soft delete (spec.md 9), isActive := false, 200;
\* 404 when no Link has the code.
Delete(d, code) ==
  /\ Arrives(dreq, d)
  /\ LET link == findUnique(code) IN
     IF link.id = 0
     THEN /\ dreq' = [dreq EXCEPT ![d] = [pc |-> "done", code |-> code, status |-> 404]]
          /\ UNCHANGED rows
     ELSE /\ rows' = [rows EXCEPT ![link.id].isActive = FALSE]
          /\ dreq' = [dreq EXCEPT ![d] = [pc |-> "done", code |-> code, status |-> 200]]
  /\ UNCHANGED <<events, now, creq, rreq>>

\* ------------------------------------------------------ Redirect Resolver
\* const link = await prisma.link.findUnique({ where: { shortCode } })
ResolveLookup(r, code) ==
  /\ Arrives(rreq, r)
  /\ rreq' = [rreq EXCEPT ![r].pc = "found", ![r].code = code,
                          ![r].link = Seen(findUnique(code))]
  /\ UNCHANGED <<rows, events, now, creq, dreq>>

\* The lookup rejects (the store is unreachable): catch (error) { next(error) },
\* and the error middleware of server.js answers 500.
ResolveLookupFails(r, code) ==
  /\ Arrives(rreq, r)
  /\ rreq' = [rreq EXCEPT ![r].pc = "done", ![r].code = code,
                          ![r].resp = ErrorResponse, ![r].err = TRUE]
  /\ UNCHANGED <<rows, events, now, creq, dreq>>

\* A variant of Unresolvable whose expiry test is expiresAt <= new Date().
UnresolvableAtExpiry(link, t) ==
  \/ link.id = 0
  \/ ~link.isActive
  \/ (link.expiresAt # 0 /\ link.expiresAt <= t)

\* The three checks of the handler on the looked-up link, at time t.
Unresolvable(link, t) ==
  \/ link.id = 0                                   \* if (!link)
  \/ ~link.isActive                                \* if (!link.isActive)
  \/ (link.expiresAt # 0 /\ link.expiresAt < t)    \* expiresAt && expiresAt < new Date()

\* The handler has returned: its locals are gone, the id of the link stays
\* with the pending trackClick.
Returned(q, resp, write) ==
  [q EXCEPT !.pc = "done", !.link = Seen(NoRow), !.linkId = q.link.id,
            !.resp = resp, !.write = write]

\* A variant of ResolveRespond that awaits trackClick before it redirects.
ResolveRespondAwaiting(r) ==
  /\ rreq[r].pc = "found"
  /\ IF Unresolvable(rreq[r].link, now)
     THEN rreq' = [rreq EXCEPT ![r] = Returned(rreq[r], NotFound, "none")]
     ELSE rreq' = [rreq EXCEPT ![r].pc = "tracking", ![r].linkId = rreq[r].link.id,
                               ![r].write = "pending"]
  /\ UNCHANGED <<rows, events, now, creq, dreq>>

\* A variant of ResolveRespond that starts trackClick before the three checks.
ResolveRespondTracksFirst(r) ==
  /\ rreq[r].pc = "found"
  /\ IF Unresolvable(rreq[r].link, now)
     THEN rreq' = [rreq EXCEPT ![r] = Returned(rreq[r], NotFound, "pending")]
     ELSE rreq' = [rreq EXCEPT ![r] =
                     Returned(rreq[r], Redirect302(rreq[r].link.originalUrl), "pending")]
  /\ UNCHANGED <<rows, events, now, creq, dreq>>

\* The continuation after the lookup, run to the end of the handler: 404, or
\* trackClick(link.id, req) is started and res.redirect(302, originalUrl) sent.
ResolveRespond(r) ==
  /\ rreq[r].pc = "found"
  /\ IF Unresolvable(rreq[r].link, now)
     THEN rreq' = [rreq EXCEPT ![r] = Returned(rreq[r], NotFound, "none")]
     ELSE rreq' = [rreq EXCEPT ![r] =
                     Returned(rreq[r], Redirect302(rreq[r].link.originalUrl), "pending")]
  /\ UNCHANGED <<rows, events, now, creq, dreq>>

\* The write started by trackClick completes: one ClickEvent for the link and
\* an atomic increment of its clicks.
TrackClickSucceeds(r) ==
  /\ rreq[r].write = "pending"
  /\ LET id == rreq[r].linkId IN
       /\ events' = [events EXCEPT ![id] = @ + 1]
       /\ rows' = [rows EXCEPT ![id].clicks = @ + 1]
  /\ rreq' = [rreq EXCEPT ![r].write = "ok"]
  /\ UNCHANGED <<now, creq, dreq>>

\* A variant of TrackClickFails with .catch(next): the rejection reaches the
\* error middleware.
TrackClickFailsForwarded(r) ==
  /\ rreq[r].write = "pending"
  /\ rreq' = [rreq EXCEPT ![r].write = "failed", ![r].err = TRUE]
  /\ UNCHANGED <<rows, events, now, creq, dreq>>

\* A variant of TrackClickFails that runs the write again after a rejection
\* that came when the ClickEvent had already been inserted.
TrackClickFailsRetried(r) ==
  /\ rreq[r].write = "pending"
  /\ events' = [events EXCEPT ![rreq[r].linkId] = @ + 1]
  /\ UNCHANGED <<rows, now, creq, rreq, dreq>>

\* The write rejects: .catch(console.error) logs the error and drops it.
TrackClickFails(r) ==
  /\ rreq[r].write = "pending"
  /\ rreq' = [rreq EXCEPT ![r].write = "failed"]
  /\ UNCHANGED <<rows, events, now, creq, dreq>>

Next ==
  \/ Tick
  \/ \E i \in CIds : CreateBegin(i) \/ CreateCheck(i) \/ CreateInsert(i)
  \/ \E d \in DIds, c \in Named : Delete(d, c)
  \/ \E r \in RIds, c \in Named : ResolveLookup(r, c) \/ ResolveLookupFails(r, c)
  \/ \E r \in RIds : ResolveRespond(r) \/ TrackClickSucceeds(r) \/ TrackClickFails(r)

Spec == Init /\ [][Next]_vars

\* ================================================================ claims

\* The redirect requests answered 302 for link id.
Answered302(id) ==
  {r \in RIds : rreq[r].resp.status = 302 /\ rreq[r].linkId = id}

\* Every redirect handler has returned and every write of trackClick is settled.
Settled ==
  \A r \in RIds : rreq[r].pc \in {"idle", "done"} /\ rreq[r].write # "pending"

\* A redirect request has answered 404 for a code whose Link exists: the Link
\* was deleted or had expired.
Gone(c) ==
  \E r \in RIds :
    rreq[r].code = c /\ rreq[r].resp.status = 404 /\ rreq[r].linkId # 0

\* C1: when the handler answers, it answers 404 if the lookup found no Link,
\* or a Link with isActive false, or a Link whose expiresAt is set and earlier
\* than the current time, with one and the same response in the three cases;
\* in every other case it answers 302 with the Link's originalUrl as target.
C1_ResolveOutcome ==
  [][\A r \in RIds :
       (rreq[r].pc = "found" /\ rreq'[r].pc = "done") =>
         LET l == rreq[r].link IN
         IF l.id = 0 \/ l.isActive = FALSE \/ (l.expiresAt # 0 /\ l.expiresAt < now)
         THEN rreq'[r].resp = [status |-> 404, location |-> 0, body |-> "Not Found"]
         ELSE rreq'[r].resp = [status |-> 302, location |-> rows[l.id].originalUrl,
                               body |-> ""]]_vars

\* C1 witness: one request was redirected to its Link's URL, and another was
\* answered 404 for a Link that is stored and active, hence expired.
C1_Witness ==
  \E r1, r2 \in RIds :
    /\ rreq[r1].resp.status = 302
    /\ rreq[r1].resp.location = rows[rreq[r1].linkId].originalUrl
    /\ rreq[r2].resp.status = 404
    /\ rreq[r2].linkId # 0
    /\ rows[rreq[r2].linkId].isActive

\* C2: once delete(code) has answered 200, no redirect request for that code
\* is answered 302, a request whose lookup ran before the delete included.
C2_NoRedirectAfterDelete ==
  [][\A r \in RIds :
       (/\ rreq[r].pc = "found"
        /\ \E d \in DIds : dreq[d].status = 200 /\ dreq[d].code = rreq[r].code)
       => rreq'[r].resp.status # 302]_vars

\* C3: once all redirect requests have finished, the clicks of every Link
\* equal the number of requests answered 302 for it.
C3_ClicksCountRedirects ==
  Settled =>
    \A i \in CIds : rows[i].id # 0 => rows[i].clicks = Cardinality(Answered302(i))

\* C4: no two Links have the same shortCode, and of two finished create
\* requests with the same custom shortCode each was answered 201 or 409, not
\* both 201, and both 409 only if a third request holds the code.
C4_UniqueShortCode ==
  /\ \A i, j \in CIds :
       (i # j /\ rows[i].id # 0 /\ rows[j].id # 0) => rows[i].shortCode # rows[j].shortCode
  /\ \A i, j \in CIds :
       (/\ i # j
        /\ creq[i].pc = "done" /\ creq[j].pc = "done"
        /\ ~creq[i].auto /\ ~creq[j].auto
        /\ creq[i].code = creq[j].code)
       => /\ {creq[i].status, creq[j].status} \subseteq {201, 409}
          /\ ~(creq[i].status = 201 /\ creq[j].status = 201)
          /\ (creq[i].status = 409 /\ creq[j].status = 409) =>
               \E k \in CIds \ {i, j} :
                 rows[k].id # 0 /\ rows[k].shortCode = creq[i].code

\* C4 witness: two create requests with the same custom code have finished,
\* one with 201 and one with 409.
C4_Witness ==
  \E i, j \in CIds :
    /\ ~creq[i].auto /\ ~creq[j].auto
    /\ creq[i].code = creq[j].code
    /\ creq[i].status = 201
    /\ creq[j].status = 409

\* C5: a redirect request whose trackClick write is pending or has failed was
\* answered 302 to the Link's originalUrl, and the failure did not reach the
\* error handler.
C5_AnalyticsFailureSwallowed ==
  \A r \in RIds :
    rreq[r].write \in {"pending", "failed"} =>
      /\ rreq[r].resp = Redirect302(rows[rreq[r].linkId].originalUrl)
      /\ ~rreq[r].err

\* C5 witness: the write of a redirected request has failed.
C5_Witness ==
  \E r \in RIds : rreq[r].write = "failed" /\ rreq[r].resp.status = 302

\* C6 as stated: once everything has settled, the ClickEvents of every Link
\* number exactly the requests answered 302 for it.
C6_EveryRedirectRecorded ==
  Settled => \A i \in CIds : events[i] = Cardinality(Answered302(i))

\* C6 as amended: the ClickEvents of a Link number exactly the requests
\* answered 302 for it whose write has succeeded, hence never more than the
\* requests answered 302; a request whose write failed has none.
C6_AtMostOncePerRedirect ==
  \A i \in CIds :
    /\ events[i] = Cardinality({r \in Answered302(i) : rreq[r].write = "ok"})
    /\ events[i] <= Cardinality(Answered302(i))

\* C6 witness: two requests for one Link were answered 302; the write of one
\* succeeded and the write of the other failed.
C6_Witness ==
  \E i \in CIds, r1, r2 \in RIds :
    /\ r1 \in Answered302(i) /\ r2 \in Answered302(i)
    /\ rreq[r1].write = "ok" /\ rreq[r2].write = "failed"
    /\ events[i] = 1

\* C7: a create request never generates more than MaxAttempts candidates: a
\* request with a generated code whose last allowed candidate collided has
\* stopped with 500, and 500 is answered in no other case.
C7_BoundedGeneration ==
  \A i \in CIds :
    /\ creq[i].attempts <= MaxAttempts
    /\ creq[i].status = 500 =>
         (creq[i].auto /\ creq[i].pc = "done" /\ creq[i].attempts = MaxAttempts)
    /\ ~creq[i].auto => creq[i].attempts = 0

\* C7 witness: a create request with shortCode omitted has failed with 500.
C7_Witness ==
  \E i \in CIds : creq[i].auto /\ creq[i].pc = "done" /\ creq[i].status = 500

\* C8: the 302 is sent in the step that starts the write of trackClick: there
\* is no state in which a write has been started and the handler has not yet
\* answered 302.
C8_RedirectDoesNotWait ==
  \A r \in RIds :
    rreq[r].write # "none" => (rreq[r].pc = "done" /\ rreq[r].resp.status = 302)

\* C8 witness: a request has its 302 while its write is still pending.
C8_Witness ==
  \E r \in RIds :
    rreq[r].pc = "done" /\ rreq[r].resp.status = 302 /\ rreq[r].write = "pending"

C10_NotFoundChangesNothing ==
  /\ [](/\ \A r \in RIds : rreq[r].resp.status = 404 => rreq[r].write = "none"
        /\ \A i \in CIds : rows[i].clicks <= Cardinality(Answered302(i)))
  /\ [][/\ (\E r \in RIds : rreq[r].resp.status # 404 /\ rreq'[r].resp.status = 404)
             => (rows' = rows /\ events' = events)
        /\ \A i \in CIds : rows[i].id # 0 => rows'[i].clicks >= rows[i].clicks]_vars

\* C10 witness: a request was answered 404 for a Link that had been clicked.
C10_Witness ==
  \E r \in RIds :
    /\ rreq[r].resp.status = 404
    /\ rreq[r].linkId # 0
    /\ rows[rreq[r].linkId].clicks > 0

====
